---- MODULE Spec2Model ----
(***************************************************************************)
(* Model of sensores.py: sensors with a sliding window of calibrated       *)
(* readings, a per-class alert predicate, and the GestorAlertas cycle that *)
(* logs every step and fans an alert message out to the notifiers.         *)
(*                                                                         *)
(* Numbers.  Readings, calibrations and thresholds are integers (Python    *)
(* floats holding small integers are exact).  The mean is kept as the      *)
(* exact fraction num/den; comparisons cross-multiply, and the ":.2f"      *)
(* formatting rounds the fraction to hundredths.                           *)
(***************************************************************************)
EXTENDS Integers, Sequences, FiniteSets, TLC

\* ------------------------------------------------------------------ bounds
MaxSensores == 2       \* sensors registered in the manager (Spec)
MaxNotificadores == 2  \* notifiers registered in the manager
MaxLecturas == 3       \* leer() calls in a run, over all sensors
MaxVentana == 2        \* largest window drawn for a sensor (SpecSensor)
MaxPlanta == 2         \* managers registered in the plant (SpecPlanta)

\* Raw readings fed to leer(), calibration offsets and thresholds drawn.
Valores == {-3, 1, 3}
Calibraciones == {-1, 0, 2}
Umbrales == {-1, 0, 2, 3}
Ventanas == -1..MaxVentana

Clases == {"SensorTemperatura", "SensorVibracion", "SensorHumedad",
           "SensorContaminacionAire"}

VARIABLES
    sensores,       \* the Sensor objects: sequence of records
    listas,         \* the list objects held in Sensor._buffer: ref -> contents
    gestores,       \* the GestorAlertas objects: sequence of records
    gestor,         \* self of the running (or last) evaluar_y_notificar
    planta,         \* PlantaIndustrial._gestores: sequence of indices into
                    \* gestores
    pg,             \* position of "for gestor in self._gestores"; 0 outside
                    \* evaluar_sensores
    llamadas,       \* entries to and returns from evaluar_y_notificar made by
                    \* the current (or last) evaluar_sensores, in order
    pc,             \* position in evaluar_y_notificar / evaluar_sensores, or
                    \* in their caller: "idle", "retornado" (the cycle just
                    \* returned), "excepcion" (the call just raised),
                    \* "terminada" (evaluar_sensores just returned)
    i,              \* position of "for s in self._sensores"
    j,              \* position of "for n in self._notificadores"
    msg,            \* local variable msg of evaluar_y_notificar
    traza,          \* calls made by the current (or last) cycle, in order
    anterior,       \* the calls of the cycle that returned just before the
                    \* current one was entered on the same manager with no
                    \* reading in between; <<>> otherwise
    hist            \* per sensor, the raw values passed to leer(), in order

vars == <<sensores, listas, gestores, gestor, planta, pg, llamadas, pc, i, j,
          msg, traza, anterior, hist>>

\* self._sensores and self._notificadores of the running manager.
sens_gestor == gestores[gestor]._sensores

notificadores == gestores[gestor]._notificadores

\* GestorAlertas.__init__
NuevoGestor(lista_sensores, lista_notificadores) ==
    [_sensores |-> lista_sensores, _notificadores |-> lista_notificadores]

\* ------------------------------------------------------------ arithmetic
RECURSIVE Suma(_)
Suma(b) == IF b = <<>> THEN 0 ELSE Head(b) + Suma(Tail(b))

Abs(x) == IF x < 0 THEN -x ELSE x

\* format(x, ".2f") of the fraction num/den (den > 0): the nearest number of
\* hundredths.  With integer num and den < 8 no tie occurs.
Formato2f(f) == (200 * f.num + f.den) \div (2 * f.den)

\* ----------------------------------------------------------------- Sensor
\* A mutable default shared by every sensor (default=[] semantics).
lista_compartida(k) == 1

\* field(default_factory=list): a fresh list per constructed sensor.
default_factory(k) == k

NuevoSensor(k, id, clase, ventana, calibracion, umbral) ==
    [id |-> id, clase |-> clase, ventana |-> ventana,
     _calibracion |-> calibracion, umbral |-> umbral,
     _buffer |-> default_factory(k)]

\* leer without the eviction of lines 42-43.
leer_sin_desalojo(s, b, valor) == Append(b, valor + s._calibracion)

\* leer evicting with pop() (the newest) instead of pop(0).
leer_desaloja_nuevo(s, b, valor) ==
    LET b1 == Append(b, valor + s._calibracion)
    IN  IF Len(b1) > s.ventana THEN SubSeq(b1, 1, Len(b1) - 1) ELSE b1

\* leer storing the raw value.
leer_sin_calibracion(s, b, valor) ==
    LET b1 == Append(b, valor)
    IN  IF Len(b1) > s.ventana THEN Tail(b1) ELSE b1

\* leer evicting as soon as the window is full (>= instead of >).
leer_desaloja_al_llenar(s, b, valor) ==
    LET b1 == Append(b, valor + s._calibracion)
    IN  IF Len(b1) >= s.ventana THEN Tail(b1) ELSE b1

\* leer treating a window below 1 as a window of 1.
leer_ventana_minima(s, b, valor) ==
    LET b1 == Append(b, valor + s._calibracion)
    IN  IF Len(b1) > (IF s.ventana < 1 THEN 1 ELSE s.ventana)
        THEN Tail(b1) ELSE b1

\* Sensor.leer: the new contents of the buffer b of sensor s.
leer(s, b, valor) ==
    LET v == valor + s._calibracion
        b1 == Append(b, v)
    IN  IF Len(b1) > s.ventana THEN Tail(b1) ELSE b1

\* promedio without the empty-buffer case: the mean of no values.
promedio_sin_guarda(b) == [num |-> Suma(b), den |-> Len(b)]

\* Sensor.promedio over buffer contents b, as an exact fraction.
promedio(b) ==
    IF Len(b) > 0 THEN [num |-> Suma(b), den |-> Len(b)]
                  ELSE [num |-> 0, den |-> 1]

\* x > umbral: the boundary excluded.
MayorEstricto(x, umbral) == x.num > umbral * x.den

\* x >= umbral for the fraction x.
MayorIgual(x, umbral) == x.num >= umbral * x.den

\* en_alerta with SensorVibracion comparing the signed average.
en_alerta_sin_abs(s, b) == MayorIgual(promedio(b), s.umbral)

\* en_alerta of each class, over buffer contents b.
en_alerta(s, b) ==
    CASE s.clase = "SensorTemperatura" -> MayorIgual(promedio(b), s.umbral)
      [] s.clase = "SensorVibracion" ->
            MayorIgual([num |-> Abs(promedio(b).num), den |-> promedio(b).den],
                       s.umbral)
      [] s.clase = "SensorHumedad" -> MayorIgual(promedio(b), s.umbral)
      [] s.clase = "SensorContaminacionAire" ->
            MayorIgual(promedio(b), s.umbral)

Buffer(k) == listas[sensores[k]._buffer]

\* ---------------------------------------------------------------- events
\* A call of RegistroEvento.registrar_evento made while the loop is at the
\* p-th sensor of the manager (0: before the loop).
Registro(evento, p, texto) ==
    [op |-> "registrar_evento", evento |-> evento, sensor |-> p, notif |-> 0,
     canal |-> "", texto |-> texto, ok |-> TRUE]

\* A call of enviar on the n-th notifier for the p-th sensor; ok: it returned.
Envio(p, n, canal, texto, ok) ==
    [op |-> "enviar", evento |-> "", sensor |-> p, notif |-> n,
     canal |-> canal, texto |-> texto, ok |-> ok]

Texto(plantilla, id, avg) == [plantilla |-> plantilla, id |-> id, avg |-> avg]

SinMsg == Texto("", "", 0)

\* The alert message without the average.
TextoAlerta_sin_promedio(s, b) == Texto("ALERTA", s.id, 0)

\* msg = f"ALERTA: Sensor {s.id} en umbral (avg={s.promedio:.2f})"
TextoAlerta(s, b) == Texto("ALERTA", s.id, Formato2f(promedio(b)))

\* The notification event without the sensor id.
TextoEnviada_sin_id(s) == Texto("ENVIADA", "", 0)

\* f"Notificación enviada para {s.id}"
TextoEnviada(s) == Texto("ENVIADA", s.id, 0)

\* An else branch that logs nothing.
EventosSinAlerta_ninguno(p, s) == <<>>

\* The else branch: one "SIN ALERTA" event for the p-th sensor s.
EventosSinAlerta(p, s) ==
    <<Registro("SIN ALERTA", p, Texto("DENTRO", s.id, 0))>>

\* Iterating over reversed(lista).
Posicion_inversa(lista, paso) == Len(lista) + 1 - paso

\* A for loop over a list visits, at its paso-th iteration, position paso.
Posicion(lista, paso) == paso

\* ---------------------------------------------------------------- actions
\* The caller of the sensors, the managers and the plant is between calls.
EnLlamador == pc \in {"idle", "retornado", "excepcion", "terminada"}

TotalLecturas == Suma([k \in 1..Len(hist) |-> Len(hist[k])])

\* sensor.leer(valor), called by the top-level caller between cycles.
Leer(k, valor) ==
    /\ EnLlamador
    /\ TotalLecturas < MaxLecturas
    /\ listas' = [listas EXCEPT ![sensores[k]._buffer] =
                                    leer(sensores[k], @, valor)]
    /\ hist' = [hist EXCEPT ![k] = Append(@, valor)]
    /\ pc' = "idle"
    /\ anterior' = <<>>
    /\ UNCHANGED <<sensores, gestores, gestor, planta, pg, llamadas, i, j, msg,
                   traza>>

\* traza is a whole cycle that returned, and no reading was taken since.
CicloRetornado ==
    \/ pc = "retornado"
    \/ pc \in {"planta", "terminada"} /\ llamadas # <<>>

\* No first event.
EventosInicio_ninguno == <<>>

\* Line 92: the first event of a cycle.
EventosInicio ==
    <<Registro("EVALUACIÓN INICIADA", 0, Texto("COMENZANDO", "", 0))>>

\* An evaluation that empties every window when it starts.
Entrar_limpia(g) ==
    /\ gestor' = g
    /\ traza' = EventosInicio
    /\ anterior' = IF CicloRetornado /\ gestor = g THEN traza ELSE <<>>
    /\ i' = 1
    /\ j' = 0
    /\ msg' = SinMsg
    /\ pc' = "sensores"
    /\ listas' = [r \in DOMAIN listas |-> <<>>]
    /\ UNCHANGED <<sensores, gestores, planta, hist>>

\* evaluar_y_notificar is entered on manager g: "EVALUACIÓN INICIADA".
Entrar(g) ==
    /\ gestor' = g
    /\ traza' = EventosInicio
    /\ anterior' = IF CicloRetornado /\ gestor = g THEN traza ELSE <<>>
    /\ i' = 1
    /\ j' = 0
    /\ msg' = SinMsg
    /\ pc' = "sensores"
    /\ UNCHANGED <<sensores, listas, gestores, planta, hist>>

\* The top-level caller calls evaluar_y_notificar on a manager.
Iniciar ==
    /\ EnLlamador
    /\ \E g \in 1..Len(gestores) : Entrar(g)
    /\ UNCHANGED <<pg, llamadas>>

\* One iteration of "for s in self._sensores" up to the inner loop.
EvaluarSensor ==
    /\ pc = "sensores"
    /\ i <= Len(sens_gestor)
    /\ LET p == Posicion(sens_gestor, i)
           k == sens_gestor[p]
           s == sensores[k]
       IN  IF en_alerta(s, Buffer(k))
           THEN /\ msg' = TextoAlerta(s, Buffer(k))
                /\ traza' = Append(traza, Registro("ALERTA ACTIVA", p,
                                                   TextoAlerta(s, Buffer(k))))
                /\ j' = 1
                /\ pc' = "notificadores"
                /\ i' = i
           ELSE /\ traza' = traza \o EventosSinAlerta(p, s)
                /\ i' = i + 1
                /\ UNCHANGED <<msg, j, pc>>
    /\ UNCHANGED <<sensores, listas, gestores, gestor, planta, pg, llamadas,
                   anterior, hist>>

\* enviar wrapped in try/except: a failure is swallowed and the loop goes on.
Enviar_aislado ==
    /\ pc = "notificadores"
    /\ j <= Len(notificadores)
    /\ \E ok \in BOOLEAN :
          traza' = Append(traza,
                 Envio(Posicion(sens_gestor, i), Posicion(notificadores, j),
                       notificadores[Posicion(notificadores, j)], msg, ok))
    /\ pc' = "enviado"
    /\ UNCHANGED <<sensores, listas, gestores, gestor, planta, pg, llamadas, i,
                   j, msg, anterior, hist>>

\* n.enviar(msg): returns, or raises; the exception is caught neither in
\* evaluar_y_notificar nor in evaluar_sensores and reaches the caller.
Enviar ==
    /\ pc = "notificadores"
    /\ j <= Len(notificadores)
    /\ \E ok \in BOOLEAN :
          /\ traza' = Append(traza,
                 Envio(Posicion(sens_gestor, i), Posicion(notificadores, j),
                       notificadores[Posicion(notificadores, j)], msg, ok))
          /\ pc' = IF ok THEN "enviado" ELSE "excepcion"
          /\ pg' = IF ok THEN pg ELSE 0
    /\ UNCHANGED <<sensores, listas, gestores, gestor, planta, llamadas, i, j,
                   msg, anterior, hist>>

\* The notification event logged twice.
RegistrarNotificacion_doble ==
    /\ pc = "enviado"
    /\ traza' = traza \o
           <<Registro("NOTIFICACIÓN ENVIADA", Posicion(sens_gestor, i),
               TextoEnviada(sensores[sens_gestor[Posicion(sens_gestor, i)]])),
             Registro("NOTIFICACIÓN ENVIADA", Posicion(sens_gestor, i),
               TextoEnviada(sensores[sens_gestor[Posicion(sens_gestor, i)]]))>>
    /\ j' = j + 1
    /\ pc' = "notificadores"
    /\ UNCHANGED <<sensores, listas, gestores, gestor, planta, pg, llamadas, i,
                   msg, anterior, hist>>

\* The "NOTIFICACIÓN ENVIADA" event after a send that returned.
RegistrarNotificacion ==
    /\ pc = "enviado"
    /\ traza' = Append(traza,
           Registro("NOTIFICACIÓN ENVIADA", Posicion(sens_gestor, i),
               TextoEnviada(sensores[sens_gestor[Posicion(sens_gestor, i)]])))
    /\ j' = j + 1
    /\ pc' = "notificadores"
    /\ UNCHANGED <<sensores, listas, gestores, gestor, planta, pg, llamadas, i,
                   msg, anterior, hist>>

\* The inner loop leaving one iteration early (off by one).
FinNotificadores_antes ==
    /\ pc = "notificadores"
    /\ j >= Len(notificadores)
    /\ i' = i + 1
    /\ pc' = "sensores"
    /\ UNCHANGED <<sensores, listas, gestores, gestor, planta, pg, llamadas, j,
                   msg, traza, anterior, hist>>

\* The inner loop is exhausted: next sensor.
FinNotificadores ==
    /\ pc = "notificadores"
    /\ j > Len(notificadores)
    /\ i' = i + 1
    /\ pc' = "sensores"
    /\ UNCHANGED <<sensores, listas, gestores, gestor, planta, pg, llamadas, j,
                   msg, traza, anterior, hist>>

\* The outer loop is exhausted: evaluar_y_notificar returns, to the
\* top-level caller or to the loop of evaluar_sensores.
Retornar ==
    /\ pc = "sensores"
    /\ i > Len(sens_gestor)
    /\ IF pg = 0
       THEN /\ pc' = "retornado"
            /\ UNCHANGED <<pg, llamadas>>
       ELSE /\ pc' = "planta"
            /\ pg' = pg + 1
            /\ llamadas' = Append(llamadas,
                               [gestor |-> gestor, pos |-> pg, fase |-> "fin"])
    /\ UNCHANGED <<sensores, listas, gestores, gestor, planta, i, j, msg,
                   traza, anterior, hist>>

Next ==
    \/ \E k \in 1..Len(sensores), valor \in Valores : Leer(k, valor)
    \/ Iniciar
    \/ EvaluarSensor
    \/ Enviar
    \/ RegistrarNotificacion
    \/ FinNotificadores
    \/ Retornar

\* ------------------------------------------------------------ initial states
\* The notifier lists: email first, then webhook, alternating.
ListaNotificadores(n) ==
    [p \in 1..n |-> IF p % 2 = 1 THEN "NotificadorEmail"
                                 ELSE "NotificadorWebhook"]

\* The sensors a plant is built from (Spec): one per class.
Catalogo ==
    <<[id |-> "temperatura_01", clase |-> "SensorTemperatura", ventana |-> 2,
       calibracion |-> 0, umbral |-> 2],
      [id |-> "vibracion_02", clase |-> "SensorVibracion", ventana |-> 2,
       calibracion |-> 0, umbral |-> 3],
      [id |-> "humedad_04", clase |-> "SensorHumedad", ventana |-> 1,
       calibracion |-> 1, umbral |-> 2],
      [id |-> "aire_05", clase |-> "SensorContaminacionAire", ventana |-> 2,
       calibracion |-> 0, umbral |-> 0]>>

\* Increasing selections of n catalogue positions.
Selecciones(n) ==
    {f \in [1..n -> 1..Len(Catalogo)] :
        \A p \in 1..n, q \in 1..n : p < q => f[p] < f[q]}

InitComun ==
    /\ listas = [r \in 1..Len(sensores) |-> <<>>]
    /\ gestor = 1
    /\ planta = <<>>
    /\ pg = 0
    /\ llamadas = <<>>
    /\ pc = "idle"
    /\ i = 0
    /\ j = 0
    /\ msg = SinMsg
    /\ traza = <<>>
    /\ anterior = <<>>
    /\ hist = [k \in 1..Len(sensores) |-> <<>>]

\* A manager over up to MaxSensores catalogue sensors.
Init ==
    /\ \E n \in 0..MaxSensores : \E f \in Selecciones(n) :
          sensores = [k \in 1..n |->
                        NuevoSensor(k, Catalogo[f[k]].id, Catalogo[f[k]].clase,
                                    Catalogo[f[k]].ventana,
                                    Catalogo[f[k]].calibracion,
                                    Catalogo[f[k]].umbral)]
    /\ \E m \in 0..MaxNotificadores :
          gestores = <<NuevoGestor([p \in 1..Len(sensores) |-> p],
                                   ListaNotificadores(m))>>
    /\ InitComun

Spec == Init /\ [][Next]_vars

\* One sensor of any class, window, calibration and threshold, in a manager
\* with one notifier (the managers built in main()).
InitSensor ==
    /\ \E clase \in Clases, ventana \in Ventanas, cal \in Calibraciones,
          umbral \in Umbrales :
          sensores = <<NuevoSensor(1, "s1", clase, ventana, cal, umbral)>>
    /\ gestores = <<NuevoGestor(<<1>>, ListaNotificadores(1))>>
    /\ InitComun

SpecSensor == InitSensor /\ [][Next]_vars

\* ------------------------------------------------------ PlantaIndustrial
\* agregar_gestor(gestor): appended, whatever the list already holds.
AgregarGestor(g) ==
    /\ EnLlamador
    /\ Len(planta) < MaxPlanta
    /\ planta' = Append(planta, g)
    /\ pc' = "idle"
    /\ UNCHANGED <<sensores, listas, gestores, gestor, pg, llamadas, i, j,
                   msg, traza, anterior, hist>>

\* evaluar_sensores is entered ("Inicia evaluación...").
IniciarPlanta ==
    /\ EnLlamador
    /\ pg' = 1
    /\ llamadas' = <<>>
    /\ pc' = "planta"
    /\ UNCHANGED <<sensores, listas, gestores, gestor, planta, i, j, msg,
                   traza, anterior, hist>>

\* One iteration of "for gestor in self._gestores": the call of line 115.
LlamarGestor ==
    /\ pc = "planta"
    /\ pg <= Len(planta)
    /\ Entrar(planta[Posicion(planta, pg)])
    /\ llamadas' = Append(llamadas,
                       [gestor |-> planta[Posicion(planta, pg)],
                        pos |-> Posicion(planta, pg), fase |-> "inicio"])
    /\ UNCHANGED pg

\* The loop of evaluar_sensores leaving one iteration early (off by one).
FinPlanta_antes ==
    /\ pc = "planta"
    /\ pg >= Len(planta)
    /\ pc' = "terminada"
    /\ pg' = 0
    /\ UNCHANGED <<sensores, listas, gestores, gestor, planta, llamadas, i, j,
                   msg, traza, anterior, hist>>

\* The loop is exhausted ("... Evaluación terminada"): evaluar_sensores
\* returns.
FinPlanta ==
    /\ pc = "planta"
    /\ pg > Len(planta)
    /\ pc' = "terminada"
    /\ pg' = 0
    /\ UNCHANGED <<sensores, listas, gestores, gestor, planta, llamadas, i, j,
                   msg, traza, anterior, hist>>

\* The calls of a plant whose sensors are read no further: direct cycles,
\* registrations and plant evaluations.
NextPlanta ==
    \/ Iniciar
    \/ EvaluarSensor
    \/ Enviar
    \/ RegistrarNotificacion
    \/ FinNotificadores
    \/ Retornar
    \/ \E g \in 1..Len(gestores) : AgregarGestor(g)
    \/ IniciarPlanta
    \/ LlamarGestor
    \/ FinPlanta

\* The sensors of the plant: each quiet (temperatura_01) or in alert from
\* its creation (aire_05, threshold 0).
SensoresPlanta == {1, 4}

\* A plant, empty at first, and two managers: one over both sensors with one
\* notifier, one over the second sensor with two notifiers.
InitPlanta ==
    /\ \E c1 \in SensoresPlanta, c2 \in SensoresPlanta :
          sensores = <<NuevoSensor(1, Catalogo[c1].id, Catalogo[c1].clase,
                                   Catalogo[c1].ventana,
                                   Catalogo[c1].calibracion,
                                   Catalogo[c1].umbral),
                       NuevoSensor(2, Catalogo[c2].id, Catalogo[c2].clase,
                                   Catalogo[c2].ventana,
                                   Catalogo[c2].calibracion,
                                   Catalogo[c2].umbral)>>
    /\ gestores = <<NuevoGestor(<<1, 2>>, ListaNotificadores(1)),
                    NuevoGestor(<<2>>, ListaNotificadores(2))>>
    /\ InitComun

SpecPlanta == InitPlanta /\ [][NextPlanta]_vars

\* A call that has started keeps executing: every step of a running
\* evaluar_y_notificar or evaluar_sensores is eventually taken.
PasoEnCurso ==
    \/ EvaluarSensor
    \/ Enviar
    \/ RegistrarNotificacion
    \/ FinNotificadores
    \/ Retornar
    \/ LlamarGestor
    \/ FinPlanta

SpecPlantaJusta == SpecPlanta /\ WF_vars(PasoEnCurso)

\* Readings, direct cycles and plant evaluations together, over one
\* temperature sensor shared by two managers (one and two notifiers).
NextCompleto ==
    \/ \E k \in 1..Len(sensores), valor \in Valores : Leer(k, valor)
    \/ NextPlanta

InitCompleto ==
    /\ sensores = <<NuevoSensor(1, Catalogo[1].id, Catalogo[1].clase,
                                Catalogo[1].ventana, Catalogo[1].calibracion,
                                Catalogo[1].umbral)>>
    /\ gestores = <<NuevoGestor(<<1>>, ListaNotificadores(1)),
                    NuevoGestor(<<1>>, ListaNotificadores(2))>>
    /\ InitComun

SpecCompleta == InitCompleto /\ [][NextCompleto]_vars

\* ================================================================= claims
\* The adjusted values of the readings of sensor k, oldest first.
Ajustadas(k) ==
    [p \in 1..Len(hist[k]) |-> hist[k][p] + sensores[k]._calibracion]

\* The last n elements of the sequence q (n <= Len(q)).
Ultimos(q, n) == SubSeq(q, Len(q) - n + 1, Len(q))

Min(a, b) == IF a < b THEN a ELSE b

\* C1: a sensor created with a positive window and an empty buffer never
\* holds more than ventana values, whatever readings leer() received.
C1_BufferAcotado ==
    \A k \in 1..Len(sensores) :
        sensores[k].ventana >= 1 => Len(Buffer(k)) <= sensores[k].ventana

\* A full window that has already evicted a reading.
C1_Witness ==
    \E k \in 1..Len(sensores) :
        /\ sensores[k].ventana >= 1
        /\ Len(hist[k]) > sensores[k].ventana
        /\ Len(Buffer(k)) = sensores[k].ventana

\* C2: after more than ventana readings the buffer is exactly the last
\* ventana adjusted values in insertion order, and promedio is their mean.
C2_Fifo ==
    \A k \in 1..Len(sensores) :
        (sensores[k].ventana >= 1 /\ Len(hist[k]) > sensores[k].ventana) =>
            /\ Buffer(k) = Ultimos(Ajustadas(k), sensores[k].ventana)
            /\ promedio(Buffer(k)) =
                   [num |-> Suma(Ultimos(Ajustadas(k), sensores[k].ventana)),
                    den |-> sensores[k].ventana]

\* An evicted reading differs from everything kept, and the window holds two
\* different values: order and eviction are both visible.
C2_Witness ==
    \E k \in 1..Len(sensores) :
        /\ sensores[k].ventana = 2
        /\ Len(hist[k]) = 3
        /\ hist[k][1] # hist[k][2]
        /\ hist[k][2] # hist[k][3]
        /\ hist[k][1] # hist[k][3]
        /\ promedio(Buffer(k)).den = 2

\* C10: every value in the buffer is the raw reading plus the calibration,
\* added once; the newest element is the last reading plus the calibration.
C10_Calibracion ==
    \A k \in 1..Len(sensores) :
        (sensores[k].ventana >= 1 /\ Len(hist[k]) >= 1) =>
            /\ Buffer(k)[Len(Buffer(k))] =
                   hist[k][Len(hist[k])] + sensores[k]._calibracion
            /\ Len(Buffer(k)) = Min(Len(hist[k]), sensores[k].ventana)
            /\ \A p \in 1..Len(Buffer(k)) :
                   Buffer(k)[p] =
                       hist[k][Len(hist[k]) - Len(Buffer(k)) + p]
                           + sensores[k]._calibracion

\* Two readings kept under a non-zero calibration.
C10_Witness ==
    \E k \in 1..Len(sensores) :
        /\ sensores[k]._calibracion # 0
        /\ Len(Buffer(k)) >= 2
        /\ Len(hist[k]) > Len(Buffer(k))

\* ------------------------------------------------- the evaluation cycle
Pos == 1..Len(traza)

EsEnvio(a) == traza[a].op = "enviar"

EsEvento(a, evento) ==
    traza[a].op = "registrar_evento" /\ traza[a].evento = evento

EsVeredicto(a) == EsEvento(a, "ALERTA ACTIVA") \/ EsEvento(a, "SIN ALERTA")

\* The sensor object at position p of the manager's list, and its verdict.
SensorPos(p) == sensores[sens_gestor[p]]

EnAlertaPos(p) == en_alerta(SensorPos(p), Buffer(sens_gestor[p]))

Envios(p, n) ==
    {a \in Pos : EsEnvio(a) /\ traza[a].sensor = p /\ traza[a].notif = n}

Eventos(evento, p) == {a \in Pos : EsEvento(a, evento) /\ traza[a].sensor = p}

\* C3: when a cycle has returned, enviar was called exactly once for every
\* (alerting sensor, registered notifier) pair, and never for a sensor that
\* is not in alert.
C3_UnEnvioPorPar ==
    pc = "retornado" =>
        /\ \A p \in 1..Len(sens_gestor), n \in 1..Len(notificadores) :
               Cardinality(Envios(p, n)) = IF EnAlertaPos(p) THEN 1 ELSE 0
        /\ \A a \in Pos :
               EsEnvio(a) =>
                   /\ traza[a].sensor \in 1..Len(sens_gestor)
                   /\ traza[a].notif \in 1..Len(notificadores)
                   /\ traza[a].canal = notificadores[traza[a].notif]

\* A returned cycle over an alerting and a quiet sensor, with two notifiers.
C3_Witness ==
    /\ pc = "retornado"
    /\ Len(notificadores) = 2
    /\ \E p, q \in 1..Len(sens_gestor) : EnAlertaPos(p) /\ ~EnAlertaPos(q)

\* C4: sensors are evaluated in registration order, and all notifiers of an
\* alerting sensor are called, in registration order, before the next
\* sensor is evaluated: the sends are ordered by (sensor, notifier).
C4_Orden ==
    /\ \A a, b \in Pos : a < b => traza[a].sensor <= traza[b].sensor
    /\ \A a, b \in Pos :
           (a < b /\ EsEnvio(a) /\ EsEnvio(b)) =>
               \/ traza[a].sensor < traza[b].sensor
               \/ /\ traza[a].sensor = traza[b].sensor
                  /\ traza[a].notif < traza[b].notif
    /\ \A b \in Pos :
           EsVeredicto(b) =>
               /\ traza[b].sensor =
                      Cardinality({a \in 1..b : EsVeredicto(a)})
               /\ \A a \in 1..(b - 1) :
                      EsEvento(a, "ALERTA ACTIVA") =>
                          \A n \in 1..Len(notificadores) :
                              \E c \in (a + 1)..(b - 1) :
                                  c \in Envios(traza[a].sensor, n)

\* Two alerting sensors and two notifiers: four sends.
C4_Witness ==
    /\ pc = "retornado"
    /\ Cardinality({a \in Pos : EsEnvio(a)}) = 4

\* C5: "ALERTA ACTIVA" is logged before the first send of a sensor, and
\* every send that returns is immediately followed by one "NOTIFICACIÓN
\* ENVIADA" event carrying that sensor's id.
C5_RegistroPorEnvio ==
    /\ \A a \in Pos :
           EsEnvio(a) =>
               /\ \E c \in 1..(a - 1) :
                      /\ EsEvento(c, "ALERTA ACTIVA")
                      /\ traza[c].sensor = traza[a].sensor
               /\ traza[a].notif = 1 =>
                      /\ EsEvento(a - 1, "ALERTA ACTIVA")
                      /\ traza[a - 1].sensor = traza[a].sensor
               /\ traza[a].ok =>
                      IF a < Len(traza)
                      THEN /\ EsEvento(a + 1, "NOTIFICACIÓN ENVIADA")
                           /\ traza[a + 1].sensor = traza[a].sensor
                           /\ traza[a + 1].texto.id =
                                  SensorPos(traza[a].sensor).id
                      ELSE pc = "enviado"
    /\ \A a \in Pos :
           EsEvento(a, "NOTIFICACIÓN ENVIADA") =>
               /\ a > 1
               /\ EsEnvio(a - 1)
               /\ traza[a - 1].ok

\* The second sensor of the manager alerted and both notifiers were served.
C5_Witness ==
    /\ pc = "retornado"
    /\ Cardinality(Eventos("NOTIFICACIÓN ENVIADA", 2)) = 2

\* C6: when a cycle has returned, every registered sensor has exactly one
\* verdict event: "ALERTA ACTIVA" iff it is in alert, else "SIN ALERTA" and
\* nothing sent or logged as sent for it.
C6_UnVeredicto ==
    pc = "retornado" =>
        /\ \A p \in 1..Len(sens_gestor) :
               /\ Cardinality(Eventos("ALERTA ACTIVA", p)) =
                      IF EnAlertaPos(p) THEN 1 ELSE 0
               /\ Cardinality(Eventos("SIN ALERTA", p)) =
                      IF EnAlertaPos(p) THEN 0 ELSE 1
               /\ ~EnAlertaPos(p) =>
                      /\ Eventos("NOTIFICACIÓN ENVIADA", p) = {}
                      /\ \A a \in Pos : EsEnvio(a) => traza[a].sensor # p
        /\ \A a \in Pos :
               EsVeredicto(a) => traza[a].sensor \in 1..Len(sens_gestor)

\* A returned cycle with one verdict of each kind.
C6_Witness ==
    /\ pc = "retornado"
    /\ Len(notificadores) >= 1
    /\ \E a, b \in Pos : EsEvento(a, "ALERTA ACTIVA") /\ EsEvento(b, "SIN ALERTA")

\* ------------------------------------------------------ alert predicates
ClasesUmbral == {"SensorTemperatura", "SensorHumedad", "SensorContaminacionAire"}

\* A sensor of the given class and threshold (default window, no calibration).
Ejemplo(clase, umbral) == NuevoSensor(1, "ejemplo", clase, 5, 0, umbral)

\* The buffer b has an average >= u / an average of absolute value >= u.
PromedioAlcanza(b, u) ==
    IF b = <<>> THEN 0 >= u ELSE Suma(b) >= u * Len(b)

PromedioAbsAlcanza(b, u) ==
    IF b = <<>> THEN 0 >= u ELSE Abs(Suma(b)) >= u * Len(b)

\* The verdict events of the cycle were computed from the current buffers.
TrazaVigente == pc # "idle"

\* C7: a temperature, humidity or air sensor is in alert iff its average is
\* greater than or equal to its threshold (equality alerts), and the cycle
\* logs "ALERTA ACTIVA" for it exactly then.
C7_UmbralInclusivo ==
    /\ \A k \in 1..Len(sensores) :
           sensores[k].clase \in ClasesUmbral =>
               (en_alerta(sensores[k], Buffer(k))
                    <=> PromedioAlcanza(Buffer(k), sensores[k].umbral))
    /\ TrazaVigente =>
           \A a \in Pos :
               (EsVeredicto(a) /\ SensorPos(traza[a].sensor).clase \in ClasesUmbral)
                   => (EsEvento(a, "ALERTA ACTIVA")
                         <=> PromedioAlcanza(Buffer(sens_gestor[traza[a].sensor]),
                                             SensorPos(traza[a].sensor).umbral))
    /\ \A clase \in ClasesUmbral :
           /\ ~en_alerta(Ejemplo(clase, 80), <<75>>)
           /\ en_alerta(Ejemplo(clase, 80), <<75, 85>>)
           /\ ~en_alerta(Ejemplo(clase, 70), <<65>>)
           /\ en_alerta(Ejemplo(clase, 70), <<65, 75>>)

\* Two readings whose average equals a positive threshold, and the alert
\* logged by a returned cycle.
C7_Witness ==
    /\ pc = "retornado"
    /\ sensores[1].clase \in ClasesUmbral
    /\ sensores[1].umbral > 0
    /\ Len(Buffer(1)) = 2
    /\ Suma(Buffer(1)) = 2 * sensores[1].umbral
    /\ \E a \in Pos : EsEvento(a, "ALERTA ACTIVA")

\* C8: a vibration sensor is in alert iff the absolute value of its average
\* is greater than or equal to rms_umbral: a negative average alerts,
\* opposite readings cancel, and [1.5, 3.0] under 2.5 does not alert
\* (values in hundredths).
C8_PromedioAbsoluto ==
    /\ \A k \in 1..Len(sensores) :
           sensores[k].clase = "SensorVibracion" =>
               (en_alerta(sensores[k], Buffer(k))
                    <=> PromedioAbsAlcanza(Buffer(k), sensores[k].umbral))
    /\ TrazaVigente =>
           \A a \in Pos :
               (EsVeredicto(a)
                  /\ SensorPos(traza[a].sensor).clase = "SensorVibracion")
                   => (EsEvento(a, "ALERTA ACTIVA")
                         <=> PromedioAbsAlcanza(
                                 Buffer(sens_gestor[traza[a].sensor]),
                                 SensorPos(traza[a].sensor).umbral))
    /\ ~en_alerta(Ejemplo("SensorVibracion", 250), <<150>>)
    /\ ~en_alerta(Ejemplo("SensorVibracion", 250), <<150, 300>>)
    /\ en_alerta(Ejemplo("SensorVibracion", 250), <<-300>>)
    /\ ~en_alerta(Ejemplo("SensorVibracion", 250), <<-300, 300>>)

\* A vibration sensor with a negative average under a positive threshold,
\* reported in alert by a returned cycle.
C8_Witness ==
    /\ pc = "retornado"
    /\ sensores[1].clase = "SensorVibracion"
    /\ sensores[1].umbral > 0
    /\ Buffer(1) # <<>>
    /\ Suma(Buffer(1)) < 0
    /\ \E a \in Pos : EsEvento(a, "ALERTA ACTIVA")

\* C9: with an empty buffer promedio is exactly 0 and en_alerta is defined:
\* the sensor is in alert iff its threshold is <= 0, in particular right
\* after its creation.
C9_BufferVacio ==
    \A k \in 1..Len(sensores) :
        /\ hist[k] = <<>> => Buffer(k) = <<>>
        /\ Buffer(k) = <<>> =>
               /\ promedio(Buffer(k)) = [num |-> 0, den |-> 1]
               /\ en_alerta(sensores[k], Buffer(k)) \in BOOLEAN
               /\ en_alerta(sensores[k], Buffer(k)) <=> sensores[k].umbral <= 0
               /\ TrazaVigente =>
                      \A a \in Pos :
                          (EsVeredicto(a) /\ sens_gestor[traza[a].sensor] = k)
                              => /\ EsEvento(a, "ALERTA ACTIVA")
                                     <=> sensores[k].umbral <= 0
                                 /\ traza[a].texto.avg = 0

\* A sensor never read, with threshold <= 0, reported in alert.
C9_Witness ==
    /\ pc = "retornado"
    /\ hist[1] = <<>>
    /\ sensores[1].umbral <= 0
    /\ \E a \in Pos : EsEvento(a, "ALERTA ACTIVA") /\ traza[a].texto.avg = 0

\* ------------------------------------------------------------- the plant
\* The q-th entry of llamadas belongs to the iteration (q + 1) \div 2 of the
\* loop of evaluar_sensores: its entry if q is odd, its return if q is even.
LlamadasEnOrden ==
    \A q \in 1..Len(llamadas) :
        /\ llamadas[q].pos = (q + 1) \div 2
        /\ llamadas[q].pos \in 1..Len(planta)
        /\ llamadas[q].gestor = planta[llamadas[q].pos]
        /\ llamadas[q].fase = IF q % 2 = 1 THEN "inicio" ELSE "fin"

\* C11: evaluar_sensores enters evaluar_y_notificar once per position of the
\* plant's list, in list order, each cycle returning before the next is
\* entered; agregar_gestor appends at the end, so a new manager comes last
\* and a manager registered twice is evaluated twice.
C11_PlantaEnOrden ==
    /\ [](LlamadasEnOrden)
    /\ [](pc = "terminada" => Len(llamadas) = 2 * Len(planta))
    /\ [](pc = "planta" => Len(llamadas) = 2 * (pg - 1))
    /\ [][planta' # planta =>
             /\ Len(planta') = Len(planta) + 1
             /\ SubSeq(planta', 1, Len(planta)) = planta
             /\ UNCHANGED <<gestores, sensores, listas, llamadas, traza>>]_vars

\* A plant holding the same manager twice, evaluated to the end.
C11_Witness ==
    /\ pc = "terminada"
    /\ Len(planta) = 2
    /\ planta[1] = planta[2]
    /\ Len(llamadas) = 4

\* The calls of the current cycle that raised.
Fallidos == {a \in Pos : EsEnvio(a) /\ ~traza[a].ok}

\* C12: an enviar that raises aborts the whole call chain: it is the last
\* call of the cycle (no "NOTIFICACIÓN ENVIADA" for it, no later notifier,
\* no later sensor), no later manager of evaluar_sensores is entered, and
\* everything done before the failure stays as it was.
C12_FalloPropaga ==
    /\ [](\A a \in Fallidos :
              /\ a = Len(traza)
              /\ pc \notin {"enviado", "notificadores", "sensores",
                            "retornado"})
    /\ [](pc = "excepcion" =>
              /\ Fallidos = {Len(traza)}
              /\ pg = 0
              /\ ~ENABLED PasoEnCurso)
    /\ [][(pc' = "excepcion" /\ pc # "excepcion") =>
             /\ pc = "notificadores"
             /\ Len(traza') = Len(traza) + 1
             /\ SubSeq(traza', 1, Len(traza)) = traza
             /\ llamadas' = llamadas
             /\ pg # 0 => llamadas[Len(llamadas)].fase = "inicio"
             /\ UNCHANGED <<sensores, listas, gestores, planta>>]_vars

\* The first manager of a plant of two raised after its first sensor had
\* been reported: the second manager was never entered.
C12_Witness ==
    /\ pc = "excepcion"
    /\ Len(planta) = 2
    /\ Len(llamadas) = 1
    /\ gestor = llamadas[1].gestor
    /\ Len(traza) >= 4

\* ------------------------------------------------------------- frame
\* C13: only leer() changes a sensor: every other step (promedio and
\* en_alerta inside a cycle, evaluar_y_notificar, evaluar_sensores) leaves
\* every buffer, window, calibration and threshold as it was, and a cycle
\* that follows a returned cycle of the same manager with no reading in
\* between makes the same calls (same verdicts, same sends).
C13_SoloLeerMuta ==
    /\ [][hist' = hist => UNCHANGED <<sensores, listas>>]_vars
    /\ [][sensores' = sensores]_vars
    /\ []((CicloRetornado /\ anterior # <<>>) => traza = anterior)

\* Two returned cycles in a row over a sensor in alert after a reading.
C13_Witness ==
    /\ pc = "retornado"
    /\ anterior # <<>>
    /\ hist[1] # <<>>
    /\ \E a \in Pos : EsEnvio(a)

\* ------------------------------------------------------------- eviction
\* The buffer of sensor k after the step.
BufferSig(k) == listas'[sensores'[k]._buffer]

\* C14: a leer() call evicts at most one element, the oldest, and none while
\* the buffer is below capacity: with ventana >= 1, after n readings the
\* buffer holds exactly min(n, ventana) values.
C14_DesalojoUnico ==
    /\ [](\A k \in 1..Len(sensores) :
              sensores[k].ventana >= 1 =>
                  Len(Buffer(k)) = Min(Len(hist[k]), sensores[k].ventana))
    /\ [][\A k \in 1..Len(sensores) :
              (hist'[k] # hist[k] /\ sensores[k].ventana >= 1) =>
                  IF Len(Buffer(k)) < sensores[k].ventana
                  THEN /\ Len(BufferSig(k)) = Len(Buffer(k)) + 1
                       /\ SubSeq(BufferSig(k), 1, Len(Buffer(k))) = Buffer(k)
                  ELSE /\ Len(BufferSig(k)) = Len(Buffer(k))
                       /\ SubSeq(BufferSig(k), 1, Len(Buffer(k)) - 1)
                              = Tail(Buffer(k))]_vars

\* A window of two that was filled without eviction and then evicted once.
C14_Witness ==
    \E k \in 1..Len(sensores) :
        /\ sensores[k].ventana = 2
        /\ Len(hist[k]) = 3
        /\ Len(Buffer(k)) = 2
        /\ hist[k][1] # hist[k][3]

\* ------------------------------------------------------- cycle, continued
\* C15: "EVALUACIÓN INICIADA" is the first call of every cycle and is made
\* once, before any verdict, other event or send, also with no sensors.
C15_InicioPrimero ==
    /\ pc # "idle" => traza # <<>>
    /\ traza # <<>> =>
           /\ EsEvento(1, "EVALUACIÓN INICIADA")
           /\ \A a \in Pos : EsEvento(a, "EVALUACIÓN INICIADA") => a = 1
    /\ (pc = "sensores" /\ i = 1) => Len(traza) = 1

\* A returned cycle of a manager without sensors.
C15_Witness ==
    /\ pc = "retornado"
    /\ Len(sens_gestor) = 0
    /\ Len(traza) = 1

\* h is the number of hundredths nearest to the average of buffer b.
EsPromedio2f(h, b) ==
    IF b = <<>> THEN h = 0
                ELSE 2 * Abs(100 * Suma(b) - h * Len(b)) <= Len(b)

\* C16: every notifier receives the message logged with "ALERTA ACTIVA";
\* that message is built once per sensor from the sensor's id and its
\* average, the average of the buffer the verdict was computed from.
C16_MismoMensaje ==
    /\ \A a \in Pos :
           EsEnvio(a) =>
               \E c \in 1..(a - 1) :
                   /\ EsEvento(c, "ALERTA ACTIVA")
                   /\ traza[c].sensor = traza[a].sensor
                   /\ traza[c].texto = traza[a].texto
    /\ \A c \in Pos :
           EsEvento(c, "ALERTA ACTIVA") =>
               /\ Cardinality(Eventos("ALERTA ACTIVA", traza[c].sensor)) = 1
               /\ traza[c].texto.plantilla = "ALERTA"
               /\ traza[c].texto.id = SensorPos(traza[c].sensor).id
               /\ TrazaVigente =>
                      /\ EsPromedio2f(traza[c].texto.avg,
                                      Buffer(sens_gestor[traza[c].sensor]))
                      /\ EnAlertaPos(traza[c].sensor)

\* Two notifiers served for a sensor whose average is not zero.
C16_Witness ==
    /\ pc = "retornado"
    /\ \E a, b \in Pos :
           /\ a < b
           /\ EsEnvio(a)
           /\ EsEnvio(b)
           /\ traza[a].sensor = traza[b].sensor
           /\ traza[a].texto.avg # 0

\* C17: a sensor with ventana <= 0 is constructed like any other; each
\* reading is appended and evicted at once, so its buffer stays empty, its
\* average 0 and its verdict the one it had when created.
C17_VentanaNoPositiva ==
    \A k \in 1..Len(sensores) :
        sensores[k].ventana <= 0 =>
            /\ Buffer(k) = <<>>
            /\ promedio(Buffer(k)) = [num |-> 0, den |-> 1]
            /\ en_alerta(sensores[k], Buffer(k)) <=> sensores[k].umbral <= 0
            /\ TrazaVigente =>
                   \A a \in Pos :
                       (EsVeredicto(a) /\ sens_gestor[traza[a].sensor] = k)
                           => (EsEvento(a, "ALERTA ACTIVA")
                                  <=> sensores[k].umbral <= 0)

\* A sensor with a window <= 0 and a positive threshold, fed two readings,
\* one of them above the threshold, and evaluated.
C17_Witness ==
    /\ pc = "retornado"
    /\ sensores[1].ventana <= 0
    /\ sensores[1].umbral > 0
    /\ Len(hist[1]) >= 2
    /\ \E q \in 1..Len(hist[1]) :
           hist[1][q] + sensores[1]._calibracion >= sensores[1].umbral
    /\ \E a \in Pos : EsEvento(a, "SIN ALERTA")

\* C18: sensors built without an explicit buffer hold different lists: a
\* reading on one sensor leaves the buffer, the average and the verdict of
\* every other sensor unchanged.
C18_BuffersIndependientes ==
    /\ [](\A k, m \in 1..Len(sensores) :
              k # m => sensores[k]._buffer # sensores[m]._buffer)
    /\ [][\A k \in 1..Len(sensores) :
              hist'[k] = hist[k] =>
                  /\ BufferSig(k) = Buffer(k)
                  /\ promedio(BufferSig(k)) = promedio(Buffer(k))
                  /\ en_alerta(sensores[k], BufferSig(k))
                         = en_alerta(sensores[k], Buffer(k))]_vars

\* Readings interleaved over two sensors.
C18_Witness ==
    /\ Len(sensores) = 2
    /\ Len(hist[1]) = 1
    /\ Len(hist[2]) = 2
    /\ Buffer(1) # <<>>
    /\ Buffer(2) # <<>>
    /\ Buffer(1) # Buffer(2)

\* The registrar_evento calls of the cycle, and the sensors it found in alert.
Registros == {a \in Pos : traza[a].op = "registrar_evento"}

EnAlertaGestor == {p \in 1..Len(sens_gestor) : EnAlertaPos(p)}

\* C19: a cycle ends, and when it returns it has logged
\* 1 + (sensors) + (sensors in alert) * (notifiers) events; evaluar_sensores
\* ends too.
C19_Termina ==
    /\ [](CicloRetornado =>
              Cardinality(Registros) =
                  1 + Len(sens_gestor)
                    + Cardinality(EnAlertaGestor) * Len(notificadores))
    /\ [](~EnLlamador => <>EnLlamador)
    /\ [](pc = "planta" => <>(pc \in {"terminada", "excepcion"}))

\* evaluar_sensores returned after two managers; the last cycle logged for
\* a quiet and an alerting sensor.
C19_Witness ==
    /\ pc = "terminada"
    /\ Len(llamadas) = 4
    /\ Len(sens_gestor) = 2
    /\ Cardinality(EnAlertaGestor) = 1
    /\ Cardinality(Registros) = 4

====
